---- MODULE Spec2Model ----
(***************************************************************************)
(* Display-name ambiguity cache of matrix_sdk_base                         *)
(* (src/matrix_sdk_base/src/store/ambiguity_map.rs).                       *)
(*                                                                         *)
(* State: the AmbiguityCache fields `cache` and `changes`, the Store the   *)
(* cache reads, the pending StateChanges batch the driver passes in, and   *)
(* history variables describing the last handle_event call.                *)
(***************************************************************************)
EXTENDS Naturals, FiniteSets, Sequences, TLC

VARIABLES
    store,      \* the Store: members, profiles, display_names
    pending,    \* the StateChanges batch: members, profiles
    cache,      \* AmbiguityCache.cache : room -> (display name -> set of users)
    changes,    \* AmbiguityCache.changes : room -> (event id -> AmbiguityChange)
    ncalls,     \* history: number of handle_event calls made so far
    before,     \* history: cache and changes as they were before the last call
    last,       \* history: the last handle_event call and what it did
    queried,    \* history: (room, name) pairs asked of get_users_with_display_name
    requeried,  \* history: the pairs asked of it more than once
    prior,      \* history: the call that returned before the last one
    group,      \* an AmbiguityMap's users and the last operation on it
    task,       \* the handle_event call in flight, if any
    nwrites     \* history: number of writes to the Store by other holders

vars == <<store, pending, cache, changes, ncalls, before, last, queried,
          requeried, prior, group, task, nwrites>>

(***************************************************************************)
(* Bounds and universes                                                    *)
(***************************************************************************)
MaxCalls == 2        \* handle_event calls in one run
MaxOps == 2          \* operations on one AmbiguityMap in one run

Rooms == {"!r1", "!r2"}
Users == {"@a:hs", "@b:hs", "@c:hs"}

NoName == "-"        \* Option<String>::None
NoUser == "-"        \* Option<UserId>::None
GivenNames == {"bob", "alice"}

Join == "join"
Invite == "invite"
Leave == "leave"
Ban == "ban"
Knock == "knock"
MembershipState == {Join, Invite, Leave, Ban, Knock}

\* UserId::localpart(): the text between the sigil and the colon
localpart(u) ==
    CASE u = "@a:hs" -> "a"
      [] u = "@b:hs" -> "b"
      [] u = "@c:hs" -> "c"

Names == GivenNames \cup {localpart(u) : u \in Users}

\* MemberEvent: event_id, sender, state_key, content.{membership, displayname}
MemberEvent(id, snd, key, m, d) ==
    [event_id |-> id, sender |-> snd, state_key |-> key,
     membership |-> m, displayname |-> d]

EmptyMap == [x \in {} |-> {}]

\* BTreeMap::insert / entry().or_insert_with()
Put(f, k, v) == [x \in (DOMAIN f) \cup {k} |-> IF x = k THEN v ELSE f[x]]
OrInsert(f, k, v) == IF k \in DOMAIN f THEN f ELSE Put(f, k, v)

(***************************************************************************)
(* AmbiguityMap                                                            *)
(***************************************************************************)
NoMap == [some |-> FALSE, display_name |-> NoName, users |-> {}]
SomeMap(n, us) == [some |-> TRUE, display_name |-> n, users |-> us]

user_count(users) == Cardinality(users)

\* self.users.iter().next().cloned() of a one-element set
first_user(users) == CHOOSE u \in users : TRUE

\* remove, had it returned the user it deleted
remove_returns_removed(users, user_id) ==
    [users |-> users \ {user_id},
     ret |-> IF user_count(users \ {user_id}) = 1 THEN user_id ELSE NoUser]

\* remove, had it returned a user only when it deleted one
remove_if_member(users, user_id) ==
    [users |-> users \ {user_id},
     ret |-> IF user_id \in users /\ user_count(users \ {user_id}) = 1
             THEN first_user(users \ {user_id}) ELSE NoUser]

\* remove, had it not deleted the user before counting
remove_keeps_user(users, user_id) ==
    [users |-> users,
     ret |-> IF user_count(users) = 1 THEN first_user(users) ELSE NoUser]

\* AmbiguityMap::remove: the users left, and the user it returns
remove(users, user_id) ==
    LET left == users \ {user_id}
    IN  [users |-> left,
         ret |-> IF user_count(left) = 1 THEN first_user(left) ELSE NoUser]

\* add, had it returned a user only when it inserted a new one
add_if_absent(users, user_id) ==
    [users |-> users \cup {user_id},
     ret |-> IF user_id \notin users /\ user_count(users) = 1
             THEN first_user(users) ELSE NoUser]

\* add, had it counted the users after the insertion
add_counts_after(users, user_id) ==
    [users |-> users \cup {user_id},
     ret |-> IF user_count(users \cup {user_id}) = 1
             THEN first_user(users \cup {user_id}) ELSE NoUser]

\* AmbiguityMap::add: the users afterwards, and the user it returns
add(users, user_id) ==
    [users |-> users \cup {user_id},
     ret |-> IF user_count(users) = 1 THEN first_user(users) ELSE NoUser]

\* is_ambiguous, had it taken any group with a member for ambiguous
is_ambiguous_with_one(users) == user_count(users) >= 1

\* AmbiguityMap::is_ambiguous (lines 69-71)
is_ambiguous(users) == user_count(users) > 1

(***************************************************************************)
(* AmbiguityCache::get                                                     *)
(*                                                                         *)
(* `fail` names the Store read that fails in this call (FailPoints); a     *)
(* read that the call never issues cannot fail.  Every stage returns the   *)
(* Store calls it issued, in order.  get awaits each read, and the Store   *)
(* is shared with other holders, so each read finds the Store as it is     *)
(* when that read is answered: `view` gives, for each read of the call,    *)
(* the Store that read finds.                                              *)
(***************************************************************************)
FailPoints == {"none", "get_member_event", "get_profile",
               "get_users_old", "get_users_new"}

\* the four awaited Store reads (lines 189, 208, 235, 273)
ReadPoints == FailPoints \ {"none"}

\* the view of a call all of whose reads find the same Store
Same(st) == [p \in ReadPoints |-> st]

NoEvent == MemberEvent("-", NoUser, NoUser, Leave, NoName)

\* one Store read: the operation, its arguments, and the fail point it is
StoreCall(op, room, arg, point) ==
    [op |-> op, room |-> room, arg |-> arg, point |-> point]

\* old_event, had it taken a user unknown to batch and Store for an error
old_event_missing_is_error(st, ch, room, ev, fail) ==
    LET key == <<room, ev.state_key>>
        call == StoreCall("get_member_event", room, ev.state_key,
                         "get_member_event")
    IN  IF key \in DOMAIN ch.members
        THEN [err |-> FALSE, some |-> TRUE, event |-> ch.members[key],
              calls |-> <<>>]
        ELSE IF key \in DOMAIN st.members /\ fail # "get_member_event"
        THEN [err |-> FALSE, some |-> TRUE, event |-> st.members[key],
              calls |-> <<call>>]
        ELSE [err |-> TRUE, some |-> FALSE, event |-> NoEvent,
              calls |-> <<call>>]

\* old_event, had it asked the Store before looking into the batch
old_event_store_first(st, ch, room, ev, fail) ==
    LET key == <<room, ev.state_key>>
        call == StoreCall("get_member_event", room, ev.state_key,
                         "get_member_event")
    IN  IF fail = "get_member_event"
        THEN [err |-> TRUE, some |-> FALSE, event |-> NoEvent,
              calls |-> <<call>>]
        ELSE IF key \in DOMAIN st.members
        THEN [err |-> FALSE, some |-> TRUE, event |-> st.members[key],
              calls |-> <<call>>]
        ELSE IF key \in DOMAIN ch.members
        THEN [err |-> FALSE, some |-> TRUE, event |-> ch.members[key],
              calls |-> <<call>>]
        ELSE [err |-> FALSE, some |-> FALSE, event |-> NoEvent,
              calls |-> <<call>>]

\* lines 180-194: the pending batch's member entry, else the Store's
old_event(st, ch, room, ev, fail) ==
    LET key == <<room, ev.state_key>>
        call == StoreCall("get_member_event", room, ev.state_key,
                         "get_member_event")
    IN  IF key \in DOMAIN ch.members
        THEN [err |-> FALSE, some |-> TRUE, event |-> ch.members[key],
              calls |-> <<>>]
        ELSE IF fail = "get_member_event"
        THEN [err |-> TRUE, some |-> FALSE, event |-> NoEvent,
              calls |-> <<call>>]
        ELSE IF key \in DOMAIN st.members
        THEN [err |-> FALSE, some |-> TRUE, event |-> st.members[key],
              calls |-> <<call>>]
        ELSE [err |-> FALSE, some |-> FALSE, event |-> NoEvent,
              calls |-> <<call>>]

\* old_display_name, had it resolved a name whatever the old membership
old_display_name_any_membership(st, ch, room, ev, oe, fail) ==
    LET key == <<room, ev.state_key>>
        call == StoreCall("get_profile", room, ev.state_key, "get_profile")
    IN  IF ~oe.some
        THEN [err |-> FALSE, name |-> NoName, calls |-> <<>>]
        ELSE IF key \in DOMAIN ch.profiles
                /\ ch.profiles[key].displayname # NoName
        THEN [err |-> FALSE, name |-> ch.profiles[key].displayname,
              calls |-> <<>>]
        ELSE IF fail = "get_profile"
        THEN [err |-> TRUE, name |-> NoName, calls |-> <<call>>]
        ELSE IF key \in DOMAIN st.profiles
                /\ st.profiles[key].displayname # NoName
        THEN [err |-> FALSE, name |-> st.profiles[key].displayname,
              calls |-> <<call>>]
        ELSE IF oe.event.displayname # NoName
        THEN [err |-> FALSE, name |-> oe.event.displayname,
              calls |-> <<call>>]
        ELSE [err |-> FALSE, name |-> localpart(oe.event.state_key),
              calls |-> <<call>>]

\* old_display_name, had it preferred the Store's profile to the batch's
old_display_name_store_first(st, ch, room, ev, oe, fail) ==
    LET key == <<room, ev.state_key>>
        call == StoreCall("get_profile", room, ev.state_key, "get_profile")
    IN  IF ~oe.some \/ oe.event.membership \notin {Join, Invite}
        THEN [err |-> FALSE, name |-> NoName, calls |-> <<>>]
        ELSE IF fail = "get_profile"
        THEN [err |-> TRUE, name |-> NoName, calls |-> <<call>>]
        ELSE IF key \in DOMAIN st.profiles
                /\ st.profiles[key].displayname # NoName
        THEN [err |-> FALSE, name |-> st.profiles[key].displayname,
              calls |-> <<call>>]
        ELSE IF key \in DOMAIN ch.profiles
                /\ ch.profiles[key].displayname # NoName
        THEN [err |-> FALSE, name |-> ch.profiles[key].displayname,
              calls |-> <<call>>]
        ELSE IF oe.event.displayname # NoName
        THEN [err |-> FALSE, name |-> oe.event.displayname,
              calls |-> <<call>>]
        ELSE [err |-> FALSE, name |-> localpart(oe.event.state_key),
              calls |-> <<call>>]

\* lines 196-222: pending profile, Store profile, the old event's own
\* name, the localpart; NoName when the old membership is not Join/Invite
old_display_name(st, ch, room, ev, oe, fail) ==
    LET key == <<room, ev.state_key>>
        call == StoreCall("get_profile", room, ev.state_key, "get_profile")
    IN  IF ~oe.some \/ oe.event.membership \notin {Join, Invite}
        THEN [err |-> FALSE, name |-> NoName, calls |-> <<>>]
        ELSE IF key \in DOMAIN ch.profiles
                /\ ch.profiles[key].displayname # NoName
        THEN [err |-> FALSE, name |-> ch.profiles[key].displayname,
              calls |-> <<>>]
        ELSE IF fail = "get_profile"
        THEN [err |-> TRUE, name |-> NoName, calls |-> <<call>>]
        ELSE IF key \in DOMAIN st.profiles
                /\ st.profiles[key].displayname # NoName
        THEN [err |-> FALSE, name |-> st.profiles[key].displayname,
              calls |-> <<call>>]
        ELSE IF oe.event.displayname # NoName
        THEN [err |-> FALSE, name |-> oe.event.displayname,
              calls |-> <<call>>]
        ELSE [err |-> FALSE, name |-> localpart(oe.event.state_key),
              calls |-> <<call>>]

\* new_display_name, had it taken the event's name whoever sent it
new_display_name_untrusted(ev, old_name) ==
    IF ev.displayname # NoName THEN ev.displayname
    ELSE localpart(ev.state_key)

\* new_display_name, had it never taken a name another sender asserts
new_display_name_never_asserted(ev, old_name) ==
    IF ev.sender = ev.state_key
    THEN IF ev.displayname # NoName THEN ev.displayname
         ELSE localpart(ev.state_key)
    ELSE IF old_name # NoName THEN old_name
    ELSE localpart(ev.state_key)

\* lines 246-261: the inbound event's name and the trust policy
new_display_name(ev, old_name) ==
    LET new == IF ev.displayname # NoName THEN ev.displayname
               ELSE localpart(ev.state_key)
    IN  IF ev.sender = ev.state_key THEN new
        ELSE IF old_name # NoName THEN old_name
        ELSE new

\* display_name_map, had it asked the Store without reading the cache
display_name_map_always_asks(st, c, room, name, point, fail) ==
    LET c1 == OrInsert(c, room, EmptyMap)
        call == StoreCall("get_users_with_display_name", room, name, point)
    IN  IF fail = point
        THEN [err |-> TRUE, cache |-> c1, users |-> {}, calls |-> <<call>>]
        ELSE [err |-> FALSE, cache |-> c1,
              users |-> st.display_names[<<room, name>>],
              calls |-> <<call>>]

\* display_name_map, had it put the Store's answer into the cache at once
display_name_map_seeds(st, c, room, name, point, fail) ==
    LET c1 == OrInsert(c, room, EmptyMap)
        call == StoreCall("get_users_with_display_name", room, name, point)
        found == st.display_names[<<room, name>>]
    IN  IF name \in DOMAIN c1[room]
        THEN [err |-> FALSE, cache |-> c1, users |-> c1[room][name],
              calls |-> <<>>]
        ELSE IF fail = point
        THEN [err |-> TRUE, cache |-> c1, users |-> {}, calls |-> <<call>>]
        ELSE [err |-> FALSE, cache |-> Put(c1, room, Put(c1[room], name, found)),
              users |-> found, calls |-> <<call>>]

\* display_name_map, had a failed lookup left an empty group in the cache
display_name_map_failseed(st, c, room, name, point, fail) ==
    LET c1 == OrInsert(c, room, EmptyMap)
        call == StoreCall("get_users_with_display_name", room, name, point)
    IN  IF name \in DOMAIN c1[room]
        THEN [err |-> FALSE, cache |-> c1, users |-> c1[room][name],
              calls |-> <<>>]
        ELSE IF fail = point
        THEN [err |-> TRUE, cache |-> Put(c1, room, Put(c1[room], name, {})),
              users |-> {}, calls |-> <<call>>]
        ELSE [err |-> FALSE, cache |-> c1,
              users |-> st.display_names[<<room, name>>],
              calls |-> <<call>>]

\* lines 225-236 and 263-274: the room's cache entry is created, then the
\* name is read from it, or from the Store on a miss
display_name_map(st, c, room, name, point, fail) ==
    LET c1 == OrInsert(c, room, EmptyMap)
        call == StoreCall("get_users_with_display_name", room, name, point)
    IN  IF name \in DOMAIN c1[room]
        THEN [err |-> FALSE, cache |-> c1, users |-> c1[room][name],
              calls |-> <<>>]
        ELSE IF fail = point
        THEN [err |-> TRUE, cache |-> c1, users |-> {}, calls |-> <<call>>]
        ELSE [err |-> FALSE, cache |-> c1,
              users |-> st.display_names[<<room, name>>],
              calls |-> <<call>>]

GetError(c, calls) ==
    [err |-> TRUE, cache |-> c, old_map |-> NoMap, new_map |-> NoMap,
     calls |-> calls]

\* the name is looked up when there is one (lines 224, 246)
optional_map(wanted, st, c, room, name, point, fail) ==
    IF wanted THEN display_name_map(st, c, room, name, point, fail)
    ELSE [err |-> FALSE, cache |-> c, users |-> {}, calls |-> <<>>]

\* lines 276-284: both maps are there
get_result(is_new, old_map, nd, calls, nm) ==
    IF nm.err THEN GetError(nm.cache, calls \o nm.calls)
    ELSE [err |-> FALSE, cache |-> nm.cache, old_map |-> old_map,
          new_map |-> IF is_new THEN SomeMap(nd, nm.users) ELSE NoMap,
          calls |-> calls \o nm.calls]

\* lines 246-274: the new name and its group
get_new_map(view, room, ev, fail, old_name, calls, om, is_new, nd) ==
    IF om.err THEN GetError(om.cache, calls \o om.calls)
    ELSE get_result(is_new,
                    IF old_name # NoName THEN SomeMap(old_name, om.users)
                    ELSE NoMap,
                    nd, calls \o om.calls,
                    optional_map(is_new, view["get_users_new"], om.cache,
                                 room, nd, "get_users_new", fail))

\* get_old_map, had it resolved a new group whatever the inbound membership
get_old_map_always_new(view, c, room, ev, fail, calls, od) ==
    IF od.err THEN GetError(c, calls \o od.calls)
    ELSE get_new_map(view, room, ev, fail, od.name, calls \o od.calls,
                     optional_map(od.name # NoName, view["get_users_old"],
                                  c, room, od.name, "get_users_old", fail),
                     TRUE,
                     new_display_name(ev, od.name))

\* lines 224-244: the old name's group
get_old_map(view, c, room, ev, fail, calls, od) ==
    IF od.err THEN GetError(c, calls \o od.calls)
    ELSE get_new_map(view, room, ev, fail, od.name, calls \o od.calls,
                     optional_map(od.name # NoName, view["get_users_old"],
                                  c, room, od.name, "get_users_old", fail),
                     ev.membership \in {Join, Invite},
                     new_display_name(ev, od.name))

\* lines 196-222: the old name
get_old_name(view, ch, c, room, ev, fail, oe) ==
    IF oe.err THEN GetError(c, oe.calls)
    ELSE get_old_map(view, c, room, ev, fail, oe.calls,
                     old_display_name(view["get_profile"], ch, room, ev, oe,
                                      fail))

\* lines 172-285
get(view, ch, c, room, ev, fail) ==
    get_old_name(view, ch, c, room, ev, fail,
                 old_event(view["get_member_event"], ch, room, ev, fail))

(***************************************************************************)
(* AmbiguityCache::handle_event and its helpers                            *)
(***************************************************************************)
NoChange ==
    [disambiguated_member |-> NoUser, ambiguated_member |-> NoUser,
     member_ambiguous |-> FALSE]

\* is_duplicate, had the gate looked for the id in every room's ledger
is_duplicate_any_room(chg, room, ev) ==
    \E r \in DOMAIN chg : ev.event_id \in DOMAIN chg[r]

\* is_duplicate, had the gate been left out
is_duplicate_ungated(chg, room, ev) == FALSE

\* lines 98-105: the duplicate gate
is_duplicate(chg, room, ev) ==
    IF room \in DOMAIN chg THEN ev.event_id \in DOMAIN chg[room] ELSE FALSE

\* display_names_same, had the same-name check been left out
display_names_never_same(old_map, new_map) == FALSE

\* display_names_same, had it compared the names of groups with members only
display_names_same_nonempty(old_map, new_map) ==
    IF old_map.some /\ new_map.some
    THEN /\ old_map.display_name = new_map.display_name
         /\ old_map.users # {}
    ELSE FALSE

\* display_names_same, had two absent names counted as the same name
display_names_same_or_none(old_map, new_map) ==
    IF old_map.some /\ new_map.some
    THEN old_map.display_name = new_map.display_name
    ELSE ~old_map.some /\ ~new_map.some

\* lines 109-112
display_names_same(old_map, new_map) ==
    IF old_map.some /\ new_map.some
    THEN old_map.display_name = new_map.display_name
    ELSE FALSE

\* update, had it committed the new group only
update_new_only(c, room, old_map, new_map) ==
    LET e0 == OrInsert(c, room, EmptyMap)[room]
        e2 == IF new_map.some THEN Put(e0, new_map.display_name, new_map.users)
              ELSE e0
    IN  Put(c, room, e2)

\* update, had it dropped a group left without members
update_prunes_empty(c, room, old_map, new_map) ==
    LET e0 == OrInsert(c, room, EmptyMap)[room]
        e1 == IF old_map.some THEN Put(e0, old_map.display_name, old_map.users)
              ELSE e0
        e2 == IF new_map.some THEN Put(e1, new_map.display_name, new_map.users)
              ELSE e1
    IN  Put(c, room, [n \in {m \in DOMAIN e2 : e2[m] # {}} |-> e2[n]])

\* update, had it rebuilt the cache from the call's room alone
update_drops_other_rooms(c, room, old_map, new_map) ==
    LET e0 == OrInsert(c, room, EmptyMap)[room]
        e1 == IF old_map.some THEN Put(e0, old_map.display_name, old_map.users)
              ELSE e0
        e2 == IF new_map.some THEN Put(e1, new_map.display_name, new_map.users)
              ELSE e1
    IN  Put(EmptyMap, room, e2)

\* lines 145-163
update(c, room, old_map, new_map) ==
    LET e0 == OrInsert(c, room, EmptyMap)[room]
        e1 == IF old_map.some THEN Put(e0, old_map.display_name, old_map.users)
              ELSE e0
        e2 == IF new_map.some THEN Put(e1, new_map.display_name, new_map.users)
              ELSE e1
    IN  Put(c, room, e2)

\* add_change, had it started a new ledger for the room
add_change_fresh(chg, room, event_id, change) ==
    Put(chg, room, Put(EmptyMap, event_id, change))

\* add_change, had it kept one ledger for all rooms
add_change_all_rooms(chg, room, event_id, change) ==
    [r \in DOMAIN chg \cup {room} |->
        Put(IF r \in DOMAIN chg THEN chg[r] ELSE EmptyMap, event_id, change)]

\* lines 165-170
add_change(chg, room, event_id, change) ==
    Put(chg, room, Put(OrInsert(chg, room, EmptyMap)[room], event_id, change))

\* commit, had it taken member_ambiguous from the new group as looked up
commit_ambiguous_before(c, chg, room, ev, g, rem, ins) ==
    [result |-> "done",
     cache |-> update(c, room,
                      IF g.old_map.some
                      THEN SomeMap(g.old_map.display_name, rem.users)
                      ELSE NoMap,
                      IF g.new_map.some
                      THEN SomeMap(g.new_map.display_name, ins.users)
                      ELSE NoMap),
     changes |-> add_change(chg, room, ev.event_id,
                    [disambiguated_member |->
                        IF g.old_map.some THEN rem.ret ELSE NoUser,
                     ambiguated_member |->
                        IF g.new_map.some THEN ins.ret ELSE NoUser,
                     member_ambiguous |->
                        IF g.new_map.some THEN is_ambiguous(g.new_map.users)
                        ELSE FALSE]),
     calls |-> g.calls, old_map |-> g.old_map, new_map |-> g.new_map]

\* commit, had it recorded the two returned users in each other's field
commit_swapped(c, chg, room, ev, g, rem, ins) ==
    [result |-> "done",
     cache |-> update(c, room,
                      IF g.old_map.some
                      THEN SomeMap(g.old_map.display_name, rem.users)
                      ELSE NoMap,
                      IF g.new_map.some
                      THEN SomeMap(g.new_map.display_name, ins.users)
                      ELSE NoMap),
     changes |-> add_change(chg, room, ev.event_id,
                    [disambiguated_member |->
                        IF g.new_map.some THEN ins.ret ELSE NoUser,
                     ambiguated_member |->
                        IF g.old_map.some THEN rem.ret ELSE NoUser,
                     member_ambiguous |->
                        IF g.new_map.some THEN is_ambiguous(ins.users)
                        ELSE FALSE]),
     calls |-> g.calls, old_map |-> g.old_map, new_map |-> g.new_map]

\* commit, had it kept member_ambiguous set once the room's ledger has it
commit_inherits_ambiguity(c, chg, room, ev, g, rem, ins) ==
    [result |-> "done",
     cache |-> update(c, room,
                      IF g.old_map.some
                      THEN SomeMap(g.old_map.display_name, rem.users)
                      ELSE NoMap,
                      IF g.new_map.some
                      THEN SomeMap(g.new_map.display_name, ins.users)
                      ELSE NoMap),
     changes |-> add_change(chg, room, ev.event_id,
                    [disambiguated_member |->
                        IF g.old_map.some THEN rem.ret ELSE NoUser,
                     ambiguated_member |->
                        IF g.new_map.some THEN ins.ret ELSE NoUser,
                     member_ambiguous |->
                        \/ IF g.new_map.some THEN is_ambiguous(ins.users)
                           ELSE FALSE
                        \/ /\ room \in DOMAIN chg
                           /\ \E id \in DOMAIN chg[room] :
                                 chg[room][id].member_ambiguous]),
     calls |-> g.calls, old_map |-> g.old_map, new_map |-> g.new_map]

\* lines 126-142: update, the AmbiguityChange, add_change
commit(c, chg, room, ev, g, rem, ins) ==
    [result |-> "done",
     cache |-> update(c, room,
                      IF g.old_map.some
                      THEN SomeMap(g.old_map.display_name, rem.users)
                      ELSE NoMap,
                      IF g.new_map.some
                      THEN SomeMap(g.new_map.display_name, ins.users)
                      ELSE NoMap),
     changes |-> add_change(chg, room, ev.event_id,
                    [disambiguated_member |->
                        IF g.old_map.some THEN rem.ret ELSE NoUser,
                     ambiguated_member |->
                        IF g.new_map.some THEN ins.ret ELSE NoUser,
                     member_ambiguous |->
                        IF g.new_map.some THEN is_ambiguous(ins.users)
                        ELSE FALSE]),
     calls |-> g.calls, old_map |-> g.old_map, new_map |-> g.new_map]

\* lines 107-126: after get
handle_resolved(chg, room, ev, g) ==
    IF g.err
    THEN [result |-> "error", cache |-> g.cache, changes |-> chg,
          calls |-> g.calls, old_map |-> NoMap, new_map |-> NoMap]
    ELSE IF display_names_same(g.old_map, g.new_map)
    THEN [result |-> "same", cache |-> g.cache, changes |-> chg,
          calls |-> g.calls, old_map |-> g.old_map, new_map |-> g.new_map]
    ELSE commit(g.cache, chg, room, ev, g,
                remove(g.old_map.users, ev.state_key),
                add(g.new_map.users, ev.state_key))

\* lines 83-143: the call from its start to its return, or, with `fail`
\* the read it is waiting for, to that read: the values it has left behind
handle_event(view, ch, c, chg, room, ev, fail) ==
    IF is_duplicate(chg, room, ev)
    THEN [result |-> "duplicate", cache |-> c, changes |-> chg,
          calls |-> <<>>, old_map |-> NoMap, new_map |-> NoMap]
    ELSE handle_resolved(chg, room, ev, get(view, ch, c, room, ev, fail))

(***************************************************************************)
(* The Store and the pending batch at the start of a run                   *)
(*                                                                         *)
(* What is known of one (room, user) before the calls under study: a       *)
(* member event and a profile in the pending batch, in the Store, in both  *)
(* or in neither.  The kinds cover every branch of the old-state           *)
(* resolution of AmbiguityCache::get.  get_users_with_display_name         *)
(* answers from the index an earlier session saved: the users that are     *)
(* Join/Invite under the name their Store state resolves to.               *)
(***************************************************************************)
Profile(d) == [displayname |-> d]

PriorKinds == {"absent", "store_join", "store_profile", "pending_bare",
               "pending_profile", "left"}
BystanderKinds == {"absent", "store_join", "store_profile"}

\* Store member event of a kind
store_member(kind, u) ==
    CASE kind = "store_join"      -> MemberEvent("$0", u, u, Join, "bob")
      [] kind = "store_profile"   -> MemberEvent("$0", u, u, Join, "bob")
      [] kind = "pending_bare"    -> MemberEvent("$0", u, u, Leave, NoName)
      [] kind = "pending_profile" -> MemberEvent("$0", u, u, Join, "bob")
      [] kind = "left"            -> MemberEvent("$0", u, u, Leave, "bob")
      [] kind = "joined"          -> MemberEvent("$0", u, u, Join, "bob")
      [] kind = "banned"          -> MemberEvent("$0", "@c:hs", u, Ban, "bob")
      [] kind = "knocked"         -> MemberEvent("$0", u, u, Knock, "bob")

\* Store profile of a kind (NoName: a profile without a display name)
store_profile(kind) ==
    CASE kind = "store_profile"   -> Profile("alice")
      [] kind = "pending_bare"    -> Profile(NoName)
      [] kind = "pending_profile" -> Profile("bob")
      [] kind = "left"            -> Profile("bob")
      [] kind = "joined"          -> Profile("bob")
      [] kind = "banned"          -> Profile("bob")
      [] kind = "knocked"         -> Profile("bob")

\* the name the Store's own state resolves to, NoName when not Join/Invite
store_name(kind) ==
    CASE kind = "store_join"      -> "bob"
      [] kind = "store_profile"   -> "alice"
      [] kind = "pending_profile" -> "bob"
      [] kind = "joined"          -> "bob"
      [] OTHER                    -> NoName

pending_member(kind, u) ==
    CASE kind = "pending_bare"    -> MemberEvent("$0", u, u, Join, NoName)
      [] kind = "pending_profile" -> MemberEvent("$0", "@c:hs", u, Invite, "bob")

pending_profile(kind) ==
    CASE kind = "pending_bare"    -> Profile(NoName)
      [] kind = "pending_profile" -> Profile("alice")

\* the kinds of a run: those of the three users in room !r1; nothing is
\* known of room !r2
KindsOf(ka, kb, kc) ==
    [x \in Rooms \X Users |->
        IF x[1] # "!r1" THEN "absent"
        ELSE CASE x[2] = "@a:hs" -> ka
               [] x[2] = "@b:hs" -> kb
               [] x[2] = "@c:hs" -> kc]

StoreOf(k) ==
    LET present == {x \in DOMAIN k : k[x] # "absent"}
    IN  [members  |-> [x \in present |-> store_member(k[x], x[2])],
         profiles |-> [x \in {y \in present : k[y] # "store_join"}
                          |-> store_profile(k[x])],
         display_names |->
             [q \in Rooms \X Names |->
                 {u \in Users : <<q[1], u>> \in present
                                /\ store_name(k[<<q[1], u>>]) = q[2]}]]

PendingOf(k) ==
    LET present == {x \in DOMAIN k : k[x] \in {"pending_bare", "pending_profile"}}
    IN  [members  |-> [x \in present |-> pending_member(k[x], x[2])],
         profiles |-> [x \in present |-> pending_profile(k[x])]]

(***************************************************************************)
(* Inputs of handle_event                                                  *)
(*                                                                         *)
(* The events of the room's log that the driver may deliver, each with its *)
(* own event id: joins of the subject under each name and under none, an   *)
(* invite by another user that asserts a name, leave, ban and knock, and   *)
(* a join and a leave of a second subject.                                 *)
(***************************************************************************)
ActiveRooms == {"!r1"}

Events ==
    { MemberEvent("$1", "@a:hs", "@a:hs", Join, "bob"),
      MemberEvent("$2", "@a:hs", "@a:hs", Join, "alice"),
      MemberEvent("$3", "@a:hs", "@a:hs", Join, NoName),
      MemberEvent("$4", "@b:hs", "@a:hs", Invite, "alice"),
      MemberEvent("$5", "@a:hs", "@a:hs", Leave, NoName),
      MemberEvent("$6", "@b:hs", "@a:hs", Ban, NoName),
      MemberEvent("$7", "@a:hs", "@a:hs", Knock, "bob"),
      MemberEvent("$8", "@b:hs", "@b:hs", Join, "bob"),
      MemberEvent("$9", "@b:hs", "@b:hs", Leave, "bob") }

(***************************************************************************)
(* The state machine                                                       *)
(*                                                                         *)
(* handle_event is an async fn on &mut self: the borrow keeps a second     *)
(* call on the same AmbiguityCache from starting while one is pending, and *)
(* the call gives up control at each Store read it awaits.  The Store is   *)
(* a shared handle: other holders write to it at any time, also while a    *)
(* call is suspended.  A call is therefore a sequence of steps: its start, *)
(* which runs the code up to the first read it awaits, and one step for    *)
(* each read that is answered, which runs the code from that read to the   *)
(* next one, or to the return.  `task` is the call in flight: the read it  *)
(* waits for, the number of its reads answered so far, and the Store as    *)
(* each answered read found it.                                            *)
(***************************************************************************)
\* no Store: nothing known of any user
NoStore ==
    [members |-> EmptyMap, profiles |-> EmptyMap,
     display_names |-> [q \in Rooms \X Names |-> {}]]

NoCall ==
    [result |-> "none", room |-> "-", event |-> NoEvent, fail |-> "none",
     calls |-> <<>>, old_map |-> NoMap, new_map |-> NoMap,
     repeat |-> FALSE, retry |-> FALSE, view |-> Same(NoStore)]

Succeeded == {"duplicate", "same", "done"}

NoPrior ==
    [result |-> "none", room |-> "-", event |-> NoEvent, fail |-> "none",
     view |-> Same(NoStore)]

\* no AmbiguityMap under study
NoGroup ==
    [users |-> {}, op |-> "none", user_id |-> NoUser, ret |-> NoUser,
     was |-> {}]

\* no call in flight
NoTask ==
    [pc |-> "idle", room |-> "-", event |-> NoEvent, answered |-> 0,
     view |-> Same(NoStore)]

\* AmbiguityCache::new: both maps empty; no call made yet
FreshCache ==
    /\ cache = EmptyMap
    /\ changes = EmptyMap
    /\ ncalls = 0
    /\ before = [cache |-> EmptyMap, changes |-> EmptyMap,
                 prev_cache |-> EmptyMap, prev_changes |-> EmptyMap]
    /\ last = NoCall
    /\ queried = {}
    /\ requeried = {}
    /\ prior = NoPrior
    /\ task = NoTask
    /\ nwrites = 0

Fresh ==
    /\ FreshCache
    /\ group = NoGroup

Init ==
    /\ \E ka \in PriorKinds, kb \in BystanderKinds, kc \in BystanderKinds :
          LET k == KindsOf(ka, kb, kc)
          IN  /\ store = StoreOf(k)
              /\ pending = PendingOf(k)
    /\ Fresh

\* the names a call asked get_users_with_display_name for
QueriedBy(calls) ==
    {<<calls[i].room, calls[i].arg>> :
        i \in {j \in DOMAIN calls :
                  calls[j].op = "get_users_with_display_name"}}

\* the names a call asked it for twice
QueriedTwiceBy(calls) ==
    {<<calls[i].room, calls[i].arg>> :
        i \in {j \in DOMAIN calls :
                  /\ calls[j].op = "get_users_with_display_name"
                  /\ \E h \in DOMAIN calls :
                        /\ h < j
                        /\ calls[h].op = calls[j].op
                        /\ calls[h].room = calls[j].room
                        /\ calls[h].arg = calls[j].arg}}

\* what a call that returns leaves in the cache, and the history of it, r
\* being what handle_event returned and view the Store as its reads found it
Returned(room, ev, fail, view, r) ==
    /\ cache' = r.cache
    /\ changes' = r.changes
    /\ last' = [result |-> r.result, room |-> room, event |-> ev,
                fail |-> fail, calls |-> r.calls,
                old_map |-> r.old_map, new_map |-> r.new_map,
                repeat |-> /\ last.result \in Succeeded
                           /\ last.room = room
                           /\ last.event = ev,
                retry |-> /\ last.result = "error"
                          /\ last.room = room
                          /\ last.event = ev
                          /\ r.result # "error",
                view |-> view]
    /\ queried' = queried \cup QueriedBy(r.calls)
    /\ requeried' = requeried \cup (queried \cap QueriedBy(r.calls))
                              \cup QueriedTwiceBy(r.calls)
    /\ prior' = [result |-> last.result, room |-> last.room,
                 event |-> last.event, fail |-> last.fail,
                 view |-> last.view]
    /\ task' = NoTask
    /\ UNCHANGED <<group, nwrites>>

\* Called, had handle_event written the groups it committed through to
\* the Store
Called_writes_store(room, ev, fail, view, r) ==
    /\ Returned(room, ev, fail, view, r)
    /\ store' = [store EXCEPT !.display_names =
                    [q \in DOMAIN @ |->
                        IF q[1] \in DOMAIN r.cache
                        THEN IF q[2] \in DOMAIN r.cache[q[1]]
                             THEN r.cache[q[1]][q[2]] ELSE @[q]
                        ELSE @[q]]]
    /\ UNCHANGED pending

\* the state a call leaves when it returns: handle_event has the Store
\* behind read-only accessors and the batch behind a shared reference
\* (lines 83-88)
Called(room, ev, fail, view, r) ==
    /\ Returned(room, ev, fail, view, r)
    /\ UNCHANGED <<store, pending>>

\* the state of a call that awaits the read p, r being what the code has
\* left behind when it gets to that read
Suspended(room, ev, view, answered, p, r) ==
    /\ task' = [pc |-> p, room |-> room, event |-> ev,
                answered |-> answered, view |-> view]
    /\ cache' = r.cache
    /\ changes' = r.changes
    /\ UNCHANGED <<store, pending, last, queried, requeried, prior, group,
                   nwrites>>

\* the read a call awaits once `answered` of its reads have returned, r
\* being the call run on to its end: "none" when it issues no further read
awaited(r, answered) ==
    IF Len(r.calls) > answered THEN r.calls[answered + 1].point ELSE "none"

\* a call that started from cache c and ledger chg runs on after `answered`
\* of its reads have returned: to the next read p it awaits, or to its return
RunsOn(c, chg, room, ev, view, answered, p) ==
    IF p = "none"
    THEN Called(room, ev, "none", view,
                handle_event(view, pending, c, chg, room, ev, "none"))
    ELSE Suspended(room, ev, view, answered, p,
                   handle_event(view, pending, c, chg, room, ev, p))

\* the driver calls handle_event(changes, room_id, member_event): no other
\* call on this cache is pending (&mut self, lines 83-84); the call runs to
\* the first Store read it awaits
HandleEvent(room, ev) ==
    /\ task.pc = "idle"
    /\ ncalls < MaxCalls
    /\ ncalls' = ncalls + 1
    /\ before' = [cache |-> cache, changes |-> changes,
                  prev_cache |-> before.cache,
                  prev_changes |-> before.changes]
    /\ RunsOn(cache, changes, room, ev, Same(store), 0,
              awaited(handle_event(Same(store), pending, cache, changes,
                                   room, ev, "none"), 0))

\* the view of the call in flight once the read it awaits finds the Store st
answered_by(t, st) == [t.view EXCEPT ![t.pc] = st]

\* the Store fails the awaited read: the call returns the error (the ?
\* of lines 189, 208, 235, 273)
ReadFails(t, view) ==
    Called(t.room, t.event, t.pc, view,
           handle_event(view, pending, before.cache, before.changes,
                        t.room, t.event, t.pc))

\* the Store answers the awaited read and the call runs on
ReadAnswered(t, view) ==
    RunsOn(before.cache, before.changes, t.room, t.event, view,
           t.answered + 1,
           awaited(handle_event(view, pending, before.cache, before.changes,
                                t.room, t.event, "none"),
                   t.answered + 1))

\* the read the call in flight awaits returns, from the Store as it is now
StoreReturns(failed) ==
    /\ task.pc \in ReadPoints
    /\ IF failed THEN ReadFails(task, answered_by(task, store))
       ELSE ReadAnswered(task, answered_by(task, store))
    /\ UNCHANGED <<ncalls, before>>

(***************************************************************************)
(* Writes to the Store by its other holders                                *)
(*                                                                         *)
(* Another holder of the Store saves the state of one user of a room: the  *)
(* user's member event and profile, and the user's place in the index of   *)
(* display names, as one saved batch.                                      *)
(***************************************************************************)
MaxWrites == 1       \* Store writes by other holders in one run

SavedKinds == {"store_profile", "left", "joined"}

\* the Store after the state of user u of a room was saved as of a kind
saved(st, room, u, kind) ==
    [members  |-> Put(st.members, <<room, u>>, store_member(kind, u)),
     profiles |-> Put(st.profiles, <<room, u>>, store_profile(kind)),
     display_names |->
         [q \in DOMAIN st.display_names |->
             IF q[1] # room THEN st.display_names[q]
             ELSE IF q[2] = store_name(kind)
             THEN st.display_names[q] \cup {u}
             ELSE st.display_names[q] \ {u}]]

\* the write of a run: the subject is renamed
Saves == {<<"@a:hs", "store_profile">>}

\* a run is over when the last of its calls has returned
Over == ncalls = MaxCalls /\ task.pc = "idle"

StoreWritten(room, u, kind) ==
    /\ ~Over
    /\ nwrites < MaxWrites
    /\ store' = saved(store, room, u, kind)
    /\ store' # store
    /\ nwrites' = nwrites + 1
    /\ UNCHANGED <<pending, cache, changes, ncalls, before, last, queried,
                   requeried, prior, group, task>>

Next ==
    \/ \E room \in ActiveRooms, ev \in Events : HandleEvent(room, ev)
    \/ \E failed \in BOOLEAN : StoreReturns(failed)
    \/ \E room \in ActiveRooms, w \in Saves : StoreWritten(room, w[1], w[2])

Spec == Init /\ [][Next]_vars

(***************************************************************************)
(* One AmbiguityMap                                                        *)
(*                                                                         *)
(* remove and add applied to a set of users drawn from every subset of a   *)
(* universe of four; the cache stays as constructed, with an empty Store   *)
(* and batch.                                                              *)
(***************************************************************************)
MapUsers == Users \cup {"@d:hs"}

InitMap ==
    /\ \E us \in SUBSET MapUsers : group = [NoGroup EXCEPT !.users = us]
    /\ store = StoreOf(KindsOf("absent", "absent", "absent"))
    /\ pending = PendingOf(KindsOf("absent", "absent", "absent"))
    /\ FreshCache

\* the map after an operation, r being what the operation returned
Applied(op, user_id, r) ==
    /\ group' = [users |-> r.users, op |-> op, user_id |-> user_id,
                 ret |-> r.ret, was |-> group.users]
    /\ ncalls' = ncalls + 1
    /\ UNCHANGED <<store, pending, cache, changes, before, last, queried,
                   requeried, prior, task, nwrites>>

Remove(user_id) ==
    /\ ncalls < MaxOps
    /\ Applied("remove", user_id, remove(group.users, user_id))

Add(user_id) ==
    /\ ncalls < MaxOps
    /\ Applied("add", user_id, add(group.users, user_id))

NextMap ==
    \E user_id \in MapUsers : Remove(user_id) \/ Add(user_id)

SpecMap == InitMap /\ [][NextMap]_vars

(***************************************************************************)
(* Subjects that are not members                                           *)
(*                                                                         *)
(* Runs from Stores in which the subject is unknown, has left, was banned  *)
(* or has knocked, the profile it had set before still stored.             *)
(***************************************************************************)
NonMemberKinds == {"absent", "left", "banned", "knocked"}
InOrderKinds == {"absent", "joined", "left"}
InOrderBystanderKinds == {"absent", "joined"}

InitNonMember ==
    /\ \E ka \in NonMemberKinds, kb \in BystanderKinds,
          kc \in InOrderBystanderKinds :
          LET k == KindsOf(ka, kb, kc)
          IN  /\ store = StoreOf(k)
              /\ pending = PendingOf(k)
    /\ Fresh

SpecNonMember == InitNonMember /\ [][Next]_vars

(***************************************************************************)
(* Two rooms                                                               *)
(*                                                                         *)
(* The same cache serves every room of the client.  In these runs both     *)
(* rooms have members in the Store, under the same names, and the driver   *)
(* delivers the same events (ids included) to either room.                 *)
(***************************************************************************)
RoomKinds == {"absent", "store_join", "pending_profile"}
RoomBystanderKinds == {"absent", "store_join"}

\* the kinds of a two-room run: those of @a and @b in each room
KindsInRooms(k1a, k1b, k2a, k2b) ==
    [x \in Rooms \X Users |->
        CASE x = <<"!r1", "@a:hs">> -> k1a
          [] x = <<"!r1", "@b:hs">> -> k1b
          [] x = <<"!r2", "@a:hs">> -> k2a
          [] x = <<"!r2", "@b:hs">> -> k2b
          [] OTHER                  -> "absent"]

RoomEvents == {ev \in Events : ev.event_id \in {"$1", "$2", "$4", "$5", "$8"}}

InitRooms ==
    /\ \E k1a \in RoomKinds, k1b \in RoomBystanderKinds,
          k2a \in RoomBystanderKinds, k2b \in RoomBystanderKinds :
          LET k == KindsInRooms(k1a, k1b, k2a, k2b)
          IN  /\ store = StoreOf(k)
              /\ pending = PendingOf(k)
    /\ Fresh

\* the write of a two-room run: the subject is renamed in the first room
RoomSaves == {<<"!r1", "@a:hs", "store_profile">>}

NextRooms ==
    \/ \E room \in Rooms, ev \in RoomEvents : HandleEvent(room, ev)
    \/ \E failed \in BOOLEAN : StoreReturns(failed)
    \/ \E w \in RoomSaves : StoreWritten(w[1], w[2], w[3])

SpecRooms == InitRooms /\ [][NextRooms]_vars

(***************************************************************************)
(* In-order delivery                                                       *)
(*                                                                         *)
(* The sync driver passes the events of a room to handle_event in log      *)
(* order and, after each call that returned Ok, puts the event into the    *)
(* batch as the subject's member event, and as the subject's profile when  *)
(* the subject sent it, so that the next call sees it as prior state.      *)
(* The batch starts empty and the Store holds what such a driver saved in  *)
(* earlier cycles: a user is unknown, joined as "bob", or has left with    *)
(* the profile of the time of leaving still stored.  Nobody else writes    *)
(* to the Store in these runs.                                             *)
(***************************************************************************)
InitInOrder ==
    /\ \E ka \in InOrderKinds, kb \in InOrderBystanderKinds,
          kc \in InOrderBystanderKinds :
          LET k == KindsOf(ka, kb, kc)
          IN  /\ store = StoreOf(k)
              /\ pending = PendingOf(k)
    /\ Fresh

\* the batch after the driver has put a processed event into it
record(ch, room, ev) ==
    [members  |-> Put(ch.members, <<room, ev.state_key>>, ev),
     profiles |-> IF ev.sender = ev.state_key
                  THEN Put(ch.profiles, <<room, ev.state_key>>,
                           Profile(ev.displayname))
                  ELSE ch.profiles]

\* the driver has put the event of the last call into the batch, if that
\* call returned Ok
Delivered ==
    last.result \in Succeeded => pending = record(pending, last.room, last.event)

\* the driver puts the event of the call that returned Ok into the batch
Record ==
    /\ task.pc = "idle"
    /\ ~Delivered
    /\ pending' = record(pending, last.room, last.event)
    /\ UNCHANGED <<store, cache, changes, ncalls, before, last, queried,
                   requeried, prior, group, task, nwrites>>

\* the driver delivers the next event of the room's log
Deliver(room, ev) ==
    /\ Delivered
    /\ HandleEvent(room, ev)

NextInOrder ==
    \/ \E room \in ActiveRooms, ev \in Events : Deliver(room, ev)
    \/ \E failed \in BOOLEAN : StoreReturns(failed)
    \/ Record

SpecInOrder == InitInOrder /\ [][NextInOrder]_vars

(***************************************************************************)
(* Properties                                                              *)
(*                                                                         *)
(* While no call is in flight, `last` describes the call that returned     *)
(* last, `before` the cache and ledger that call started from, and `prior` *)
(* the call that returned before it.  The claims about a call are stated   *)
(* of the states in which it has returned and no other call has started.   *)
(***************************************************************************)
\* no call is in flight
Idle == task.pc = "idle"

\* the Store as a read of the last call found it
Found(point) == last.view[point]

\* the display-name groups of a room, empty when the room has no entry
GroupsOf(c, room) == IF room \in DOMAIN c THEN c[room] ELSE EmptyMap

\* the ledger of a room
LedgerOf(chg, room) == IF room \in DOMAIN chg THEN chg[room] ELSE EmptyMap

HasEntry(chg, room, ev) == ev.event_id \in DOMAIN LedgerOf(chg, room)

\* the last call resolved its groups: it was no duplicate and no read failed
Resolved == last.result \in {"same", "done"}

\* the last call resolved an old and a new name and they are equal
SameName ==
    /\ Resolved
    /\ last.old_map.some
    /\ last.new_map.some
    /\ last.old_map.display_name = last.new_map.display_name

\* the last call resolved an old name and the subject stops holding it
LeavesOldName ==
    /\ Resolved
    /\ last.old_map.some
    /\ \/ ~last.new_map.some
       \/ last.new_map.display_name # last.old_map.display_name

\* the last call resolved a new name that the subject did not hold before
TakesNewName ==
    /\ Resolved
    /\ last.new_map.some
    /\ \/ ~last.old_map.some
       \/ last.old_map.display_name # last.new_map.display_name

\* C1 (idempotency, as claimed): when handle_event is called again with the
\* event of the call before it, which had succeeded, the second call leaves
\* the whole cache (every group of every room) and the whole ledger (hence
\* the delta stored under the event's id, or its absence) as the first call
\* left them, for every kind of event, same-name events included.
C1_Idempotent ==
    Idle =>
    (
    last.repeat => /\ cache = before.cache
                   /\ changes = before.changes
    )

\* C2 (error atomicity, as claimed): after a call in which a Store read
\* failed, the room-to-groups map, its room keys and name keys included,
\* and the ledger are what they were before the call.
C2_ErrorLeavesCacheUntouched ==
    Idle =>
    (
    last.result = "error" => /\ cache = before.cache
                             /\ changes = before.changes
    )

\* C3 (uniqueness trigger): when the old group looked up for the subject A
\* is {A, B} under name N and A stops holding N (it leaves, or takes
\* another name), the delta recorded under the event's id names B as
\* disambiguated_member and the cached group for N is exactly {B}.
C3_UniquenessTrigger ==
    Idle =>
    (
    ( /\ LeavesOldName
      /\ last.event.state_key \in last.old_map.users
      /\ Cardinality(last.old_map.users) = 2 )
    => \E b \in last.old_map.users \ {last.event.state_key} :
          /\ HasEntry(changes, last.room, last.event)
          /\ changes[last.room][last.event.event_id].disambiguated_member = b
          /\ last.old_map.display_name \in DOMAIN GroupsOf(cache, last.room)
          /\ cache[last.room][last.old_map.display_name] = {b}
          /\ ~is_ambiguous(cache[last.room][last.old_map.display_name])
    )

\* @a leaves the group {@a, @b} and @b is reported as disambiguated
C3_Witness ==
    /\ Idle
    /\ LeavesOldName
    /\ last.event.membership = Leave
    /\ last.old_map.users = {"@a:hs", "@b:hs"}
    /\ last.event.state_key = "@a:hs"
    /\ changes[last.room][last.event.event_id].disambiguated_member = "@b:hs"

\* C4 (ambiguation trigger): when the new group looked up is {A} under
\* name N and a different user B takes N by a Join/Invite event it sent
\* itself, the recorded delta names A as ambiguated_member, has
\* member_ambiguous true, and the cached group for N is {A, B}.
C4_AmbiguationTrigger ==
    Idle =>
    (
    ( /\ TakesNewName
      /\ last.event.sender = last.event.state_key
      /\ Cardinality(last.new_map.users) = 1
      /\ last.event.state_key \notin last.new_map.users )
    => \E a \in last.new_map.users :
          /\ HasEntry(changes, last.room, last.event)
          /\ changes[last.room][last.event.event_id].ambiguated_member = a
          /\ changes[last.room][last.event.event_id].member_ambiguous
          /\ last.new_map.display_name \in DOMAIN GroupsOf(cache, last.room)
          /\ cache[last.room][last.new_map.display_name]
                = {a, last.event.state_key}
    )

\* @a joins as "bob" by its own event while only @b is named "bob"
C4_Witness ==
    /\ Idle
    /\ TakesNewName
    /\ last.event.sender = "@a:hs"
    /\ last.event.state_key = "@a:hs"
    /\ last.event.displayname = "bob"
    /\ last.new_map.users = {"@b:hs"}
    /\ changes[last.room][last.event.event_id].ambiguated_member = "@b:hs"

\* C5 (trust policy): for a Join/Invite event whose sender is not its
\* subject U, whenever an old name was resolved for U, the new name used
\* for grouping is that old name, whatever name the event carries; so the
\* call ends at the same-name check and U enters no group: every group of
\* the room is what it was before the call.
C5_TrustPolicy ==
    Idle =>
    (
    ( /\ Resolved
      /\ last.event.membership \in {Join, Invite}
      /\ last.event.sender # last.event.state_key
      /\ last.old_map.some )
    => /\ last.new_map.some
       /\ last.new_map.display_name = last.old_map.display_name
       /\ GroupsOf(cache, last.room) = GroupsOf(before.cache, last.room)
    )

\* another user invites the subject under a name that is not the subject's
\* known one
C5_Witness ==
    /\ Idle
    /\ Resolved
    /\ last.event.membership = Invite
    /\ last.event.sender # last.event.state_key
    /\ last.old_map.some
    /\ last.event.displayname # NoName
    /\ last.event.displayname # last.old_map.display_name
    /\ last.new_map.display_name = last.old_map.display_name

\* C6 (same-name no-op): when an old and a new name are resolved and they
\* are equal, the call changes no group of the room, and it reports no
\* disambiguated and no ambiguated user: the ledger holds no delta for the
\* event with either field set.
C6_SameNameNoOp ==
    Idle =>
    (
    SameName =>
        /\ GroupsOf(cache, last.room) = GroupsOf(before.cache, last.room)
        /\ HasEntry(changes, last.room, last.event) =>
              /\ changes[last.room][last.event.event_id].disambiguated_member
                    = NoUser
              /\ changes[last.room][last.event.event_id].ambiguated_member
                    = NoUser
    )

\* a same-name event whose group is ambiguous: removing the subject would
\* leave exactly one user
C6_Witness ==
    /\ Idle
    /\ SameName
    /\ last.event.state_key \in last.old_map.users
    /\ Cardinality(last.old_map.users) = 2

C8_LeaveRemoves ==
    Idle =>
    (
    ( /\ Resolved
      /\ last.old_map.some
      /\ last.event.membership \in {Leave, Ban, Knock} )
    => LET n == last.old_map.display_name
           u == last.event.state_key
           left == last.old_map.users \ {u}
           g == GroupsOf(cache, last.room)
           g0 == GroupsOf(before.cache, last.room)
       IN  /\ n \in DOMAIN g
           /\ g[n] = left
           /\ HasEntry(changes, last.room, last.event)
           /\ changes[last.room][last.event.event_id] =
                 [disambiguated_member |->
                     IF Cardinality(left) = 1 THEN CHOOSE x \in left : TRUE
                     ELSE NoUser,
                  ambiguated_member |-> NoUser,
                  member_ambiguous |-> FALSE]
           /\ \A m \in DOMAIN g :
                 u \in g[m] => (m \in DOMAIN g0 /\ u \in g0[m])
    )

\* the subject is banned while it shares its name with one other user
C8_Witness ==
    /\ Idle
    /\ Resolved
    /\ last.event.membership = Ban
    /\ last.old_map.some
    /\ last.event.state_key \in last.old_map.users
    /\ changes[last.room][last.event.event_id].disambiguated_member # NoUser

\* C9 (as claimed): get_users_with_display_name is invoked at most once for
\* every (room, display name), over all calls.
C9_QueriedAtMostOnce ==
    Idle =>
    (
    requeried = {}
    )

\* C9 (amended): get_users_with_display_name is invoked only for a name
\* that is absent from the room's cache when the call starts; a call that
\* commits its groups puts every name it queried into the cache, and no
\* name ever leaves the cache, so no later call queries that name again.
\* A same-name call and a failed call commit nothing: the names they
\* queried stay absent and are queried again by the next reference.
C9_QueryOnlyOnMiss ==
    Idle =>
    (
    /\ \A q \in QueriedBy(last.calls) :
          q[2] \notin DOMAIN GroupsOf(before.cache, q[1])
    /\ last.result = "done" =>
          \A q \in QueriedBy(last.calls) : q[2] \in DOMAIN GroupsOf(cache, q[1])
    /\ last.result \in {"same", "error"} =>
          \A q \in QueriedBy(last.calls) :
             q[2] \notin DOMAIN GroupsOf(cache, q[1])
    /\ \A room \in Rooms :
          DOMAIN GroupsOf(before.cache, room) \subseteq
             DOMAIN GroupsOf(cache, room)
    )

\* a call whose new name was seeded by an earlier call: served from the
\* cache, the Store is not asked
C9_Witness ==
    /\ Idle
    /\ last.result = "done"
    /\ last.new_map.some
    /\ last.new_map.display_name \in DOMAIN GroupsOf(before.cache, last.room)
    /\ <<last.room, last.new_map.display_name>> \in queried
    /\ QueriedBy(last.calls) = {}

\* C10 (aborted call, then retry): a call in which a Store read failed
\* leaves the ledger and every group as they were; and when the next call
\* retries the same event and no read fails, the cache and the ledger end
\* as one successful call from the state before the failed attempt leaves
\* them.
C10_RetryAsFresh ==
    Idle =>
    (
    /\ last.result = "error" =>
          /\ changes = before.changes
          /\ ~HasEntry(changes, last.room, last.event)
          /\ \A room \in Rooms :
                GroupsOf(cache, room) = GroupsOf(before.cache, room)
    /\ last.retry =>
          LET once == handle_event(last.view, pending, before.prev_cache,
                                   before.prev_changes, last.room,
                                   last.event, "none")
          IN  /\ cache = once.cache
              /\ changes = once.changes
    )

\* a retry, after a failed users lookup, that commits a non-empty delta
C10_Witness ==
    /\ Idle
    /\ last.retry
    /\ last.result = "done"
    /\ before.cache # before.prev_cache
    /\ changes[last.room][last.event.event_id] # NoChange

\* C11 (collaborators are read only): no call, on any path (duplicate,
\* same-name, committed, failed), changes the Store or the pending batch.
C11_CollaboratorsUnchanged ==
    [][(ncalls' # ncalls \/ task' # task)
          => (store' = store /\ pending' = pending)]_vars

\* a committed call with a Store and a batch that both hold entries
C11_Witness ==
    /\ Idle
    /\ last.result = "done"
    /\ DOMAIN store.members # {}
    /\ DOMAIN pending.members # {}
    /\ cache # before.cache

\* C12 (recorded deltas are never overwritten): every entry the ledger
\* held before a call is there after it with the same delta; and a call
\* whose event id is in the room's ledger succeeds without issuing a
\* Store read and without changing the cache.
C12_LedgerNeverOverwritten ==
    Idle =>
    (
    /\ \A room \in Rooms :
          \A id \in DOMAIN LedgerOf(before.changes, room) :
             /\ id \in DOMAIN LedgerOf(changes, room)
             /\ changes[room][id] = before.changes[room][id]
    /\ HasEntry(before.changes, last.room, last.event) =>
          /\ last.result = "duplicate"
          /\ last.calls = <<>>
          /\ cache = before.cache
          /\ changes = before.changes
    )

\* a second event is committed in a room whose ledger holds a delta
C12_Witness ==
    /\ Idle
    /\ last.result = "done"
    /\ \E id \in DOMAIN LedgerOf(before.changes, last.room) :
          /\ id # last.event.event_id
          /\ before.changes[last.room][id] # NoChange
    /\ changes[last.room][last.event.event_id] # NoChange

\* C13 (the only failure is a Store failure): a call fails exactly when a
\* Store read it issued failed, and that read is the last one it issued;
\* when no read fails the call succeeds, whatever the reads return.
C13_OnlyStoreFailures ==
    Idle =>
    (
    last.result # "none" =>
        /\ last.result = "error" <=> last.fail # "none"
        /\ last.result = "error" =>
              /\ last.calls # <<>>
              /\ last.calls[Len(last.calls)].point = last.fail
        /\ last.fail = "none" => last.result \in Succeeded
    )

\* a call that succeeds although the Store knows no member event of the
\* subject and no user under the name asked for
C13_Witness ==
    /\ Idle
    /\ last.result = "done"
    /\ last.fail = "none"
    /\ <<last.room, last.event.state_key>> \notin DOMAIN Found("get_member_event").members
    /\ <<last.room, last.event.state_key>> \notin DOMAIN pending.members
    /\ \E i \in DOMAIN last.calls :
          /\ last.calls[i].op = "get_users_with_display_name"
          /\ Found(last.calls[i].point).display_names[
                <<last.room, last.calls[i].arg>>] = {}

\* the last two calls of a run, made in the opposite order from the
\* state before the first of them: the outcome of the swapped first call
SwappedFirst ==
    handle_event(last.view, pending, before.prev_cache, before.prev_changes,
                 last.room, last.event, last.fail)

\* ... and the outcome of the swapped second call
SwappedSecond ==
    handle_event(prior.view, pending, SwappedFirst.cache, SwappedFirst.changes,
                 prior.room, prior.event, prior.fail)

\* C14 (rooms are independent): a call for one room leaves the groups and
\* the ledger of every other room as they were; and two calls for
\* different rooms commute: made in the opposite order they issue the
\* same Store reads, end the same way and leave the same cache and ledger.
C14_RoomsIndependent ==
    Idle =>
    (
    /\ \A room \in Rooms \ {last.room} :
          /\ room \in DOMAIN cache <=> room \in DOMAIN before.cache
          /\ GroupsOf(cache, room) = GroupsOf(before.cache, room)
          /\ room \in DOMAIN changes <=> room \in DOMAIN before.changes
          /\ LedgerOf(changes, room) = LedgerOf(before.changes, room)
    /\ (prior.room \in Rooms /\ prior.room # last.room) =>
          /\ SwappedFirst.result = last.result
          /\ SwappedFirst.calls = last.calls
          /\ SwappedSecond.cache = cache
          /\ SwappedSecond.changes = changes
    )

\* the same event is committed in one room and then in the other, each
\* call changing the groups of its room
C14_Witness ==
    /\ Idle
    /\ prior.room \in Rooms
    /\ prior.room # last.room
    /\ prior.event = last.event
    /\ last.result = "done"
    /\ HasEntry(before.changes, prior.room, prior.event)
    /\ GroupsOf(cache, last.room) # GroupsOf(before.cache, last.room)
    /\ GroupsOf(before.cache, prior.room) # GroupsOf(before.prev_cache, prior.room)
    /\ \E n \in DOMAIN GroupsOf(cache, prior.room) : cache[prior.room][n] # {}

\* the delta the last call recorded
LastChange == changes[last.room][last.event.event_id]

\* a user's state as the next call would resolve it (lines 180-222): the
\* batch's member event, else the Store's; and for Join/Invite the name
\* from the batch's profile, the Store's profile, the event, the localpart
CurrentEvent(room, u) ==
    old_event(store, pending, room, MemberEvent("-", u, u, Leave, NoName),
              "none")

CurrentName(room, u) ==
    old_display_name(store, pending, room,
                     MemberEvent("-", u, u, Leave, NoName),
                     CurrentEvent(room, u), "none").name

\* C15 (cache coherence under in-order delivery): after any sequence of
\* deliveries, the driver having put the last event into the batch, every
\* group in the room's cache is the set of users that are now Join/Invite
\* and whose name now resolves to the group's name.
C15_CacheCoherent ==
    (Idle /\ Delivered) =>
    (
    \A room \in Rooms :
       \A n \in DOMAIN GroupsOf(cache, room) :
          cache[room][n] = {u \in Users : CurrentName(room, u) = n}
    )

\* C16 (a user is in at most one group per room): after any sequence of
\* deliveries no user is a member of two groups of the same room.
C16_OneGroupPerUser ==
    Idle =>
    (
    \A room \in Rooms :
       \A n1 \in DOMAIN GroupsOf(cache, room) :
          \A n2 \in DOMAIN GroupsOf(cache, room) \ {n1} :
             cache[room][n1] \cap cache[room][n2] = {}
    )

\* C17 (disambiguation only for a real departure): a recorded delta names
\* a disambiguated member only if the subject was in the old group and
\* the group had exactly two members before the removal.
C17_RealDeparture ==
    Idle =>
    (
    (last.result = "done" /\ LastChange.disambiguated_member # NoUser) =>
        /\ last.event.state_key \in last.old_map.users
        /\ user_count(last.old_map.users) = 2
    )

\* C18 (the ambiguated user is never the subject): the ambiguated member
\* of a recorded delta is not the event's state key.
C18_AmbiguatedIsAnother ==
    Idle =>
    (
    last.result = "done" =>
        LastChange.ambiguated_member # last.event.state_key
    )

\* C19 (ambiguated implies ambiguous): a recorded delta that names an
\* ambiguated member has member_ambiguous set.
C19_AmbiguatedImpliesAmbiguous ==
    Idle =>
    (
    (last.result = "done" /\ LastChange.ambiguated_member # NoUser) =>
        LastChange.member_ambiguous
    )

\* a first call on a fresh cache, every read answered from the Store of the
\* kinds k: what handle_event(room !r1, ev) returns
first_call(k, ev) ==
    handle_event(Same(StoreOf(k)), PendingOf(k), EmptyMap, EmptyMap, "!r1",
                 ev, "none")

\* the call r recorded a delta for ev with a disambiguated member iff d, an
\* ambiguated member iff a, and member_ambiguous = m
records_combination(r, ev, d, a, m) ==
    /\ r.result = "done"
    /\ (r.changes["!r1"][ev.event_id].disambiguated_member # NoUser) = d
    /\ (r.changes["!r1"][ev.event_id].ambiguated_member # NoUser) = a
    /\ r.changes["!r1"][ev.event_id].member_ambiguous = m

\* C20 (the three delta fields are independent): for every combination of
\* disambiguated member present or absent, ambiguated member present or
\* absent, and member_ambiguous true or false, there are a Store, a batch
\* and an event for which a single handle_event call on a fresh cache
\* records a delta of that combination.  The statement is about the
\* function the call computes and is the same in every state; it is
\* evaluated in the states before the first call.
C20_EveryCombination ==
    ncalls = 0 =>
    \A d \in BOOLEAN, a \in BOOLEAN, m \in BOOLEAN :
       \E ka \in PriorKinds, kb \in BystanderKinds, kc \in BystanderKinds :
          \E ev \in Events :
             records_combination(first_call(KindsOf(ka, kb, kc), ev), ev,
                                 d, a, m)

\* a rename has disambiguated a user of the old group and ambiguated a user
\* of the new group
C20_Witness ==
    /\ Idle
    /\ last.result = "done"
    /\ last.old_map.some
    /\ last.new_map.some
    /\ LastChange.disambiguated_member # NoUser
    /\ LastChange.ambiguated_member # NoUser
    /\ LastChange.disambiguated_member # LastChange.ambiguated_member
    /\ LastChange.member_ambiguous

\* the key of the last call's subject in the batch and in the Store
LastKey == <<last.room, last.event.state_key>>

\* the last call got as far as get(): it was made and was no duplicate
Looked == last.result \in {"error", "same", "done"}

\* the positions of the last call's reads of one Store operation
ReadsOf(op) == {i \in DOMAIN last.calls : last.calls[i].op = op}

\* the subject's prior state as the spec orders it: the batch's member
\* entry, else the Store's, else none
PriorOf(key) ==
    IF key \in DOMAIN pending.members
    THEN [some |-> TRUE, event |-> pending.members[key]]
    ELSE IF key \in DOMAIN Found("get_member_event").members
    THEN [some |-> TRUE, event |-> Found("get_member_event").members[key]]
    ELSE [some |-> FALSE, event |-> NoEvent]

\* the prior state is Join or Invite
PriorIsMember(key) ==
    PriorOf(key).some /\ PriorOf(key).event.membership \in {Join, Invite}

\* C21 (old membership resolution order): when the batch has a member
\* entry for the subject the call does not read get_member_event and the
\* batch's entry is the prior state; otherwise the call's first read is
\* get_member_event for the subject and the Store's entry, if any, is the
\* prior state.  The prior state shows in whether an old group is resolved.
C21_OldEventOrder ==
    Idle =>
    (
    Looked =>
        /\ LastKey \in DOMAIN pending.members => ReadsOf("get_member_event") = {}
        /\ LastKey \notin DOMAIN pending.members =>
              /\ ReadsOf("get_member_event") = {1}
              /\ last.calls[1].room = last.room
              /\ last.calls[1].arg = last.event.state_key
        /\ Resolved => (last.old_map.some <=> PriorIsMember(LastKey))
    )

\* the batch says Join where the Store says Leave, and the call resolved
\* an old group without asking the Store for the member event
C21_Witness ==
    /\ Idle
    /\ last.result = "done"
    /\ LastKey \in DOMAIN pending.members
    /\ LastKey \in DOMAIN Found("get_member_event").members
    /\ pending.members[LastKey].membership = Join
    /\ Found("get_member_event").members[LastKey].membership = Leave
    /\ last.old_map.some

\* a profile's display name, NoName when there is no profile or no name
NameIn(profiles, key) ==
    IF key \in DOMAIN profiles THEN profiles[key].displayname ELSE NoName

\* the old display name as the spec orders its sources
FirstAvailableName(key) ==
    IF NameIn(pending.profiles, key) # NoName
    THEN NameIn(pending.profiles, key)
    ELSE IF NameIn(Found("get_profile").profiles, key) # NoName
    THEN NameIn(Found("get_profile").profiles, key)
    ELSE IF PriorOf(key).event.displayname # NoName
    THEN PriorOf(key).event.displayname
    ELSE localpart(key[2])

\* C22 (old display-name resolution order): with a Join/Invite prior state
\* the old name is the first of the batch profile's name, the Store
\* profile's name, the prior event's name and the localpart; a profile
\* without a name is skipped; get_profile is read once, and not at all
\* when the batch's profile has a name.
C22_OldNameOrder ==
    Idle =>
    (
    (Looked /\ PriorIsMember(LastKey)) =>
        /\ Resolved =>
              /\ last.old_map.some
              /\ last.old_map.display_name = FirstAvailableName(LastKey)
        /\ NameIn(pending.profiles, LastKey) # NoName =>
              ReadsOf("get_profile") = {}
        /\ (NameIn(pending.profiles, LastKey) = NoName
            /\ last.fail # "get_member_event") =>
              /\ Cardinality(ReadsOf("get_profile")) = 1
              /\ \A i \in ReadsOf("get_profile") :
                    /\ last.calls[i].room = last.room
                    /\ last.calls[i].arg = last.event.state_key
    )

\* both profiles exist without a name, the prior event has none either,
\* and the old name is the localpart
C22_Witness ==
    /\ Idle
    /\ last.result = "done"
    /\ LastKey \in DOMAIN pending.profiles
    /\ LastKey \in DOMAIN Found("get_profile").profiles
    /\ NameIn(pending.profiles, LastKey) = NoName
    /\ NameIn(Found("get_profile").profiles, LastKey) = NoName
    /\ last.old_map.some
    /\ last.old_map.display_name = localpart(last.event.state_key)

\* the subject of the last call is in every group of its room it was in
\* before the call
RemovedFromNoGroup ==
    \A n \in DOMAIN GroupsOf(before.cache, last.room) :
       last.event.state_key \in before.cache[last.room][n] =>
          /\ n \in DOMAIN GroupsOf(cache, last.room)
          /\ last.event.state_key \in cache[last.room][n]

\* C23 (no old group without a Join/Invite prior state): when the subject
\* has no prior member event, or one that is Leave, Ban or Knock, the call
\* reads no profile and no old group from the Store, resolves no old
\* name, takes the subject out of no group and records no disambiguated
\* member.
C23_NoOldGroup ==
    Idle =>
    (
    (Looked /\ ~PriorIsMember(LastKey)) =>
        /\ ReadsOf("get_profile") = {}
        /\ \A i \in DOMAIN last.calls : last.calls[i].point # "get_users_old"
        /\ Resolved => ~last.old_map.some
        /\ RemovedFromNoGroup
        /\ last.result = "done" => LastChange.disambiguated_member = NoUser
    )

\* a banned subject with a named profile in the Store, in a group of the
\* cache since the call before, is the subject of a committed call
C23_Witness ==
    /\ Idle
    /\ last.result = "done"
    /\ PriorOf(LastKey).some
    /\ PriorOf(LastKey).event.membership = Ban
    /\ NameIn(store.profiles, LastKey) # NoName
    /\ \E n \in DOMAIN GroupsOf(before.cache, last.room) :
          /\ last.event.state_key \in before.cache[last.room][n]
          /\ Cardinality(before.cache[last.room][n]) = 2

\* the subject of the last call is in no group of its room it was not in
\* before the call
InsertedIntoNoGroup ==
    \A n \in DOMAIN GroupsOf(cache, last.room) :
       last.event.state_key \in cache[last.room][n] =>
          /\ n \in DOMAIN GroupsOf(before.cache, last.room)
          /\ last.event.state_key \in before.cache[last.room][n]

\* C24 (no new group without a Join/Invite inbound state): when the
\* inbound membership is Leave, Ban or Knock the call resolves no new
\* name, reads no new group from the Store, puts the subject into no
\* group, and records no ambiguated member and member_ambiguous false.
C24_NoNewGroup ==
    Idle =>
    (
    (Looked /\ last.event.membership \notin {Join, Invite}) =>
        /\ \A i \in DOMAIN last.calls : last.calls[i].point # "get_users_new"
        /\ Resolved => ~last.new_map.some
        /\ InsertedIntoNoGroup
        /\ last.result = "done" =>
              /\ LastChange.ambiguated_member = NoUser
              /\ LastChange.member_ambiguous = FALSE
    )

\* a knock that carries a display name is committed for a subject that
\* leaves a group others stay in
C24_Witness ==
    /\ Idle
    /\ last.result = "done"
    /\ last.event.membership = Knock
    /\ last.event.displayname # NoName
    /\ last.old_map.some
    /\ Cardinality(last.old_map.users) > 1

\* the candidate name of an inbound event: its own display name, or the
\* subject's localpart when it has none
CandidateName(ev) ==
    IF ev.displayname # NoName THEN ev.displayname
    ELSE localpart(ev.state_key)

\* C25 (new display-name resolution): for a Join/Invite inbound event the
\* new name is the candidate (the event's display name, else the
\* localpart) when the subject sent the event, and also when another user
\* sent it and no old name was resolved.
C25_NewNameIsCandidate ==
    Idle =>
    (
    (/\ Resolved
     /\ last.event.membership \in {Join, Invite}
     /\ \/ last.event.sender = last.event.state_key
        \/ ~last.old_map.some) =>
        /\ last.new_map.some
        /\ last.new_map.display_name = CandidateName(last.event)
    )

\* a first invite by another user: no old name, and the subject is put
\* under the name the invite carries
C25_Witness ==
    /\ Idle
    /\ last.result = "done"
    /\ last.event.membership = Invite
    /\ last.event.sender # last.event.state_key
    /\ ~last.old_map.some
    /\ last.new_map.display_name = last.event.displayname
    /\ last.event.state_key \in cache[last.room][last.event.displayname]

\* C26 (group remove): remove(user) leaves the set without user, and
\* returns the single remaining member exactly when one member remains;
\* it returns nothing when none or two or more remain.
C26_Remove ==
    Idle =>
    (
    group.op = "remove" =>
        /\ group.users = group.was \ {group.user_id}
        /\ group.ret # NoUser <=> Cardinality(group.users) = 1
        /\ group.ret # NoUser => group.users = {group.ret}
    )

\* a member is removed from a set of two and the other one is returned
C26_Witness ==
    /\ Idle
    /\ group.op = "remove"
    /\ group.user_id \in group.was
    /\ Cardinality(group.was) = 2
    /\ group.ret \in group.was \ {group.user_id}

\* C27 (group add): add(user) returns the sole member the set had before
\* the insertion exactly when it had one member (nothing when it had none
\* or two or more); afterwards the set is the previous set plus user; when
\* user was a member already the set is unchanged and the return value
\* still follows the size before.
C27_Add ==
    Idle =>
    (
    group.op = "add" =>
        /\ group.users = group.was \cup {group.user_id}
        /\ group.ret # NoUser <=> Cardinality(group.was) = 1
        /\ group.ret # NoUser => group.was = {group.ret}
        /\ group.user_id \in group.was => group.users = group.was
    )

\* the sole member of a set is added again: the set is unchanged and the
\* member itself is returned
C27_Witness ==
    /\ Idle
    /\ group.op = "add"
    /\ group.was = {group.user_id}
    /\ group.users = group.was
    /\ group.ret = group.user_id

\* C28 (member_ambiguous is the post-insertion state of the new group): a
\* recorded delta has member_ambiguous set exactly when the call resolved
\* a new group and the group it committed to the cache under the new name
\* has more than one member.
C28_AmbiguousIsCommittedState ==
    Idle =>
    (
    last.result = "done" =>
        (LastChange.member_ambiguous <=>
            /\ last.new_map.some
            /\ Cardinality(cache[last.room][last.new_map.display_name]) > 1)
    )

\* the subject joins a group that had one member: the delta says
\* ambiguous and the committed group has two members
C28_Witness ==
    /\ Idle
    /\ last.result = "done"
    /\ LastChange.member_ambiguous
    /\ Cardinality(last.new_map.users) = 1
    /\ Cardinality(cache[last.room][last.new_map.display_name]) = 2

\* the only member of a set, NoUser when it has none or several
SoleOf(users) ==
    IF Cardinality(users) = 1 THEN CHOOSE u \in users : TRUE ELSE NoUser

\* C29 (recorded delta content): a call that passes the duplicate gate
\* and the same-name check with no failed read stores under the event's
\* id a delta whose disambiguated member is what removing the subject
\* from the old group as looked up returns, whose ambiguated member is
\* what adding the subject to the new group as looked up returns, and
\* whose member_ambiguous is the ambiguity of the new group after the
\* insertion; the groups after removal and after insertion are the ones
\* committed to the cache.
C29_RecordedDelta ==
    Idle =>
    (
    (Looked /\ last.fail = "none" /\ ~SameName) =>
        /\ last.result = "done"
        /\ ~HasEntry(before.changes, last.room, last.event)
        /\ HasEntry(changes, last.room, last.event)
        /\ LastChange.disambiguated_member =
              IF last.old_map.some
              THEN SoleOf(last.old_map.users \ {last.event.state_key})
              ELSE NoUser
        /\ LastChange.ambiguated_member =
              IF last.new_map.some THEN SoleOf(last.new_map.users)
              ELSE NoUser
        /\ LastChange.member_ambiguous =
              /\ last.new_map.some
              /\ Cardinality(last.new_map.users
                                \cup {last.event.state_key}) > 1
        /\ last.old_map.some =>
              cache[last.room][last.old_map.display_name] =
                 last.old_map.users \ {last.event.state_key}
        /\ last.new_map.some =>
              cache[last.room][last.new_map.display_name] =
                 last.new_map.users \cup {last.event.state_key}
    )

\* a rename that leaves one user alone under the old name and meets one
\* user under the new name: both are recorded, with member_ambiguous set
C29_Witness ==
    /\ Idle
    /\ last.result = "done"
    /\ last.old_map.some
    /\ last.new_map.some
    /\ LastChange.disambiguated_member \in last.old_map.users
    /\ LastChange.ambiguated_member \in last.new_map.users
    /\ LastChange.disambiguated_member # LastChange.ambiguated_member
    /\ LastChange.member_ambiguous

\* the names the last call asked get_users_with_display_name for
NamesAsked == {last.calls[i].arg : i \in ReadsOf("get_users_with_display_name")}

\* C31 (no pruning): a call never takes a room or a display name out of
\* the cache; a group whose last member the call removed stays under its
\* name with no users; and a name the room's cache holds, with or without
\* users, is not asked of the Store again.
C31_NoPruning ==
    Idle =>
    (
    /\ DOMAIN before.cache \subseteq DOMAIN cache
    /\ \A room \in Rooms :
          DOMAIN GroupsOf(before.cache, room) \subseteq DOMAIN GroupsOf(cache, room)
    /\ (/\ last.result = "done"
        /\ last.old_map.some
        /\ last.old_map.users \subseteq {last.event.state_key}) =>
          /\ last.old_map.display_name \in DOMAIN cache[last.room]
          /\ cache[last.room][last.old_map.display_name] = {}
    /\ NamesAsked \cap DOMAIN GroupsOf(before.cache, last.room) = {}
    )

\* a call left a group without members; the next call takes its new group
\* under that name from the cache, empty, although the Store lists a user
\* under it
C31_Witness ==
    /\ Idle
    /\ last.result = "done"
    /\ last.new_map.some
    /\ last.new_map.display_name \in DOMAIN GroupsOf(before.cache, last.room)
    /\ before.cache[last.room][last.new_map.display_name] = {}
    /\ last.new_map.users = {}
    /\ store.display_names[<<last.room, last.new_map.display_name>>] # {}
    /\ last.new_map.display_name \notin NamesAsked

\* C32 (the disambiguated user is never the subject): the disambiguated
\* member of a recorded delta is not the event's state key, and after the
\* call it is the only member of the cached group of the old name.
C32_DisambiguatedIsAnother ==
    Idle =>
    (
    (last.result = "done" /\ LastChange.disambiguated_member # NoUser) =>
        /\ LastChange.disambiguated_member # last.event.state_key
        /\ last.old_map.some
        /\ cache[last.room][last.old_map.display_name] =
              {LastChange.disambiguated_member}
    )

\* the subject leaves a group of two and the other member is recorded
C32_Witness ==
    /\ Idle
    /\ last.result = "done"
    /\ LastChange.disambiguated_member # NoUser
    /\ last.old_map.users =
          {last.event.state_key, LastChange.disambiguated_member}
    /\ Cardinality(last.old_map.users) = 2

\* C33 (the duplicate gate is per room): a call whose event id is in
\* another room's ledger but not in its own room's is not stopped by the
\* gate: it resolves its groups, and unless a read fails or the names are
\* the same it records its own delta in its room's ledger; the other
\* room's entry stays as it was.
C33_GatePerRoom ==
    Idle =>
    (
    \A other \in Rooms \ {last.room} :
       (/\ HasEntry(before.changes, other, last.event)
        /\ ~HasEntry(before.changes, last.room, last.event)) =>
          /\ Looked
          /\ (last.fail = "none" /\ ~SameName) =>
                /\ last.result = "done"
                /\ HasEntry(changes, last.room, last.event)
          /\ HasEntry(changes, other, last.event)
          /\ changes[other][last.event.event_id] =
                before.changes[other][last.event.event_id]
    )

\* an event id recorded with a delta in one room is processed in the
\* other room and recorded there with a different delta
C33_Witness ==
    /\ Idle
    /\ \E other \in Rooms \ {last.room} :
          /\ HasEntry(before.changes, other, last.event)
          /\ last.result = "done"
          /\ last.calls # <<>>
          /\ HasEntry(changes, last.room, last.event)
          /\ LastChange # changes[other][last.event.event_id]

\* C34 (an event between two non-member states is recorded as an empty
\* delta): when neither the prior nor the inbound membership is
\* Join/Invite the call asks for no users of a display name, changes no
\* group, and, no read failing, records the empty delta under the event id.
C34_NonMemberEmptyDelta ==
    Idle =>
    (
    (/\ Looked
     /\ ~PriorIsMember(LastKey)
     /\ last.event.membership \notin {Join, Invite}) =>
        /\ ReadsOf("get_users_with_display_name") = {}
        /\ \A room \in Rooms :
              GroupsOf(cache, room) = GroupsOf(before.cache, room)
        /\ last.fail = "none" =>
              /\ last.result = "done"
              /\ HasEntry(changes, last.room, last.event)
              /\ LastChange = NoChange
    )

\* a banned subject is the subject of a Leave event, with groups in the
\* cache from the call before: the empty delta is recorded
C34_Witness ==
    /\ Idle
    /\ last.result = "done"
    /\ PriorOf(LastKey).some
    /\ PriorOf(LastKey).event.membership = Ban
    /\ last.event.membership = Leave
    /\ LastChange = NoChange
    /\ \E n \in DOMAIN GroupsOf(cache, last.room) : cache[last.room][n] # {}

\* a ledger without the entries stored under other ids than the given one
OtherIdsDropped(chg, event_id) ==
    [r \in DOMAIN chg |->
        [id \in DOMAIN chg[r] \cap {event_id} |-> chg[r][id]]]

\* the last call made again from the cache it started from, with a ledger
\* that differs in the entries stored under other event ids
WithoutOtherIds ==
    handle_event(last.view, pending, before.cache,
                 OtherIdsDropped(before.changes, last.event.event_id),
                 last.room, last.event, last.fail)

\* C35 (the ledger influences nothing but the duplicate gate): from two
\* states with the same groups whose ledgers differ only under event ids
\* other than the inbound one, the same call ends the same way, issues
\* the same reads, leaves the same cache and records the same delta.
C35_LedgerOnlyGates ==
    Idle =>
    (
    last.result # "none" =>
        /\ WithoutOtherIds.result = last.result
        /\ WithoutOtherIds.calls = last.calls
        /\ WithoutOtherIds.cache = cache
        /\ last.result = "done" =>
              WithoutOtherIds.changes[last.room][last.event.event_id]
                 = LastChange
    )

\* a call is committed, with a delta that names a user, in a room whose
\* ledger holds another event's delta with member_ambiguous set
C35_Witness ==
    /\ Idle
    /\ last.result = "done"
    /\ \E id \in DOMAIN LedgerOf(before.changes, last.room) :
          /\ id # last.event.event_id
          /\ before.changes[last.room][id].member_ambiguous
    /\ ~LastChange.member_ambiguous
    /\ LastChange.disambiguated_member # NoUser

\* C36 (a single call never commits two values under one key): when a
\* call commits an old and a new group their names differ, and the cache
\* then holds the old group without the subject under the old name and
\* the new group with the subject under the new name.
C36_UpdateKeysDiffer ==
    Idle =>
    (
    (last.result = "done" /\ last.old_map.some /\ last.new_map.some) =>
        /\ last.old_map.display_name # last.new_map.display_name
        /\ last.event.state_key
              \notin cache[last.room][last.old_map.display_name]
        /\ last.event.state_key
              \in cache[last.room][last.new_map.display_name]
    )

\* a rename is committed: the subject was in the old group and is moved
\* to a new group that has other members
C36_Witness ==
    /\ Idle
    /\ last.result = "done"
    /\ last.old_map.some
    /\ last.new_map.some
    /\ last.event.state_key \in last.old_map.users
    /\ last.new_map.users \ {last.event.state_key} # {}
    /\ cache[last.room][last.old_map.display_name] # last.old_map.users
    /\ cache[last.room][last.new_map.display_name] # last.new_map.users

====
